---- MODULE Spec2Model ----
(***************************************************************************)
(* A model of the Waitlist class of src/src/utils.mjs: the table of        *)
(* pending responses (a JavaScript Map), the timers started by add, and    *)
(* the continuations invoked by dispatchEvent.                             *)
(*                                                                         *)
(* JavaScript runs each method to completion, so every method is one       *)
(* action.  dispatchEvent's last statement is the call of the entry's      *)
(* continuation; whatever the continuation does (including calls back into *)
(* the table) therefore happens after every state change of dispatchEvent  *)
(* and is covered by the actions that follow the DispatchEvent step.       *)
(*                                                                         *)
(* The EventListenable class of the same file is modelled at the end: an   *)
(* object of its own, with its own state (events, evtOp), which the        *)
(* Waitlist operations leave alone.                                        *)
(***************************************************************************)
EXTENDS Integers, Sequences, FiniteSets

\* ---------------------------------------------------------------- bounds

\* Number of add calls that create an entry object in one behaviour.
MaxAdds == 2

\* Number of continuation invocations recorded in one behaviour.
MaxCalls == 2

\* ---------------------------------------------------------------- inputs

\* Keys handed to add / remove / dispatchEvent.  None of them names a
\* property of Map.prototype.
Keys == {"k1", "k2"}

\* Results handed to dispatchEvent.
Results == {"r1", "r2"}

\* JavaScript values that occur as the delay option: t is the typeof class,
\* v the number (when t = "number"), evt / evv the typeof class and number of
\* the object's explicit_val property (when t = "object").
JSNull == [t |-> "null", v |-> 0, evt |-> "undefined", evv |-> 0]
JSNum(n) == [t |-> "number", v |-> n, evt |-> "undefined", evv |-> 0]
JSStr == [t |-> "string", v |-> 0, evt |-> "undefined", evv |-> 0]
TimeoutDuration(n) == [t |-> "object", v |-> 0, evt |-> "number", evv |-> n]

\* The add calls: the resolve / reject continuations (the two functions of
\* one promise) and the options object, after the defaults of the
\* destructuring pattern have been applied (delay = null, errMsg = '',
\* callback = null).
Requests ==
    { [resolve |-> "s1", reject |-> "f1",
       options |-> [delay |-> JSNull, errMsg |-> "", callback |-> "null"]],
      [resolve |-> "s2", reject |-> "f2",
       options |-> [delay |-> JSNum(5), errMsg |-> "late", callback |-> "f"]],
      [resolve |-> "s2", reject |-> "f2",
       options |-> [delay |-> TimeoutDuration(5), errMsg |-> "late", callback |-> "f"]],
      [resolve |-> "s2", reject |-> "f2",
       options |-> [delay |-> JSStr, errMsg |-> "late", callback |-> "null"]] }

\* ----------------------------------------------------------------- state

VARIABLES
    entries,      \* heap: the entry objects created by add, by identity
    waitSet,      \* the Map's contents: key -> identity of an entry object
    waitSetProps, \* the own properties of the Map object (not its contents)
    timers,       \* the timers created by setTimeout, by handle
    calls,        \* the invocations of continuations, in order
    lastOp,       \* the operation that made the last step
    cancelled,    \* history: entries whose key was passed to remove while stored
    events,       \* EventListenable: this.events, event name -> callback chain
    evtOp         \* EventListenable: the operation that made the last step

vars == <<entries, waitSet, waitSetProps, timers, calls, lastOp, cancelled,
          events, evtOp>>

\* entry.timer of an entry added without delay (timer = null); the handles
\* setTimeout returns are the positive integers.
NullTimer == 0

EmptyMap == [k \in {} |-> 0]

Init ==
    /\ entries = <<>>
    /\ waitSet = EmptyMap
    /\ waitSetProps = EmptyMap
    /\ timers = <<>>
    /\ calls = <<>>
    /\ lastOp = [op |-> "constructor", key |-> "", pending |-> FALSE, threw |-> FALSE,
                 resolve |-> "", result |-> "", via |-> "", strict |-> FALSE,
                 delay |-> JSNull]
    /\ cancelled = {}
    /\ events = EmptyMap
    /\ evtOp = [op |-> "constructor", event |-> "", callback |-> [obj |-> 0, src |-> ""],
                threw |-> FALSE]

\* ------------------------------------------------------------- Waitlist.add

\* add without the check of its delay.
AddThrowsNever(delay) == FALSE

\* add throws TypeError: delay is neither null nor a number and has no
\* explicit_val property.
AddThrows(delay) ==
    /\ delay.t # "null"
    /\ delay.t # "number"
    /\ delay.evt = "undefined"

\* add handing the delay to setTimeout as it was given.
NormDelayAsGiven(delay) == delay

\* The delay handed to setTimeout: a number as it is, an object replaced by
\* its explicit_val.
NormDelay(delay) ==
    IF delay.t # "number"
    THEN [t |-> delay.evt, v |-> delay.evv, evt |-> "undefined", evv |-> 0]
    ELSE delay

\* setTimeout(() => {alert(...); reject}, delay, new Error(errMsg)): a new
\* armed timer; its handle is its index.  key is bookkeeping only.
SetTimeout(tm, key, delay, errMsg) ==
    Append(tm, [state |-> "armed", delay |-> delay, errMsg |-> errMsg, key |-> key])

\* add that leaves a key alone when the Map already has it.
MapSetKeepFirst(ws, key, id) ==
    IF key \in DOMAIN ws THEN ws
    ELSE [k \in DOMAIN ws \cup {key} |-> IF k = key THEN id ELSE ws[k]]

\* this.waitSet.set(waitKey, entry)
MapSet(ws, key, id) ==
    [k \in DOMAIN ws \cup {key} |-> IF k = key THEN id ELSE ws[k]]

\* add starting a timer whatever the delay.
WithTimerAlways(delay) == TRUE

\* delay !== null: add starts a timer.
WithTimer(delay) == delay.t # "null"

\* The body of add.  op, via and strict name the call for lastOp: via is the
\* message the key was taken from ("" for a call with the key itself), strict
\* the nullReqIdIsError option of MessageWaitlist.add.
AddAs(op, via, strict, waitKey, resolve, reject, options) ==
    /\ Len(entries) < MaxAdds
    /\ IF AddThrows(options.delay)
       THEN /\ lastOp' = [op |-> op, key |-> waitKey,
                          pending |-> waitKey \in DOMAIN waitSet, threw |-> TRUE,
                          resolve |-> resolve, result |-> "", via |-> via,
                          strict |-> strict, delay |-> options.delay]
            /\ UNCHANGED <<entries, waitSet, waitSetProps, timers, calls, cancelled, events, evtOp>>
       ELSE LET withTimer == WithTimer(options.delay)
                tm == IF withTimer
                      THEN SetTimeout(timers, waitKey, NormDelay(options.delay),
                                      options.errMsg)
                      ELSE timers
                timer == IF withTimer THEN Len(tm) ELSE NullTimer
                \* key and via are bookkeeping only
                entry == [resolve |-> resolve, reject |-> reject,
                          callback |-> options.callback, timer |-> timer,
                          key |-> waitKey, via |-> via]
            IN /\ timers' = tm
               /\ entries' = Append(entries, entry)
               /\ waitSet' = MapSet(waitSet, waitKey, Len(entries) + 1)
               /\ lastOp' = [op |-> op, key |-> waitKey,
                             pending |-> waitKey \in DOMAIN waitSet, threw |-> FALSE,
                             resolve |-> resolve, result |-> "", via |-> via,
                             strict |-> strict, delay |-> options.delay]
               /\ UNCHANGED <<waitSetProps, calls, cancelled, events, evtOp>>

Add(waitKey, resolve, reject, options) ==
    AddAs("add", "", FALSE, waitKey, resolve, reject, options)

\* ------------------------------------------------- the options argument

\* The fourth argument of add: undefined when the call has three arguments,
\* or an object; has is the set of the object's properties, val their values
\* (the value of a property the object does not have is not looked at).
NoValues == [delay |-> JSNull, errMsg |-> "", callback |-> "null",
             nullReqIdIsError |-> TRUE]
Omitted == [t |-> "undefined", has |-> {}, val |-> NoValues]
EmptyObject == [t |-> "object", has |-> {}, val |-> NoValues]
DelayOnly(d) ==
    [t |-> "object", has |-> {"delay"}, val |-> [NoValues EXCEPT !.delay = d]]
DelayErrMsgCallback(d, m, c) ==
    [t |-> "object", has |-> {"delay", "errMsg", "callback"},
     val |-> [delay |-> d, errMsg |-> m, callback |-> c, nullReqIdIsError |-> TRUE]]
AllOptions(d, m, c, b) ==
    [t |-> "object", has |-> {"delay", "errMsg", "callback", "nullReqIdIsError"},
     val |-> [delay |-> d, errMsg |-> m, callback |-> c, nullReqIdIsError |-> b]]

\* A property of a destructuring pattern: the object's value, or the
\* pattern's default when the object has no such property.
Prop(o, name, default) == IF name \in o.has THEN o.val[name] ELSE default

\* {delay = null, errMsg = '', callback = null} = {}: the pattern of
\* Waitlist.add, whose default for an undefined argument is {}.
OptionsOf(arg) ==
    LET o == IF arg.t = "undefined" THEN EmptyObject ELSE arg
    IN [delay |-> Prop(o, "delay", JSNull),
        errMsg |-> Prop(o, "errMsg", ""),
        callback |-> Prop(o, "callback", "null")]

\* The name of an add call in lastOp: add/3 is the call with three arguments.
CallName(op, arg) == IF arg.t = "undefined" THEN op \o "/3" ELSE op

\* add as it is called: the options argument is destructured, then the body
\* runs.
AddCall(waitKey, resolve, reject, arg) ==
    AddAs(CallName("add", arg), "", FALSE, waitKey, resolve, reject, OptionsOf(arg))

\* -------------------------------------------------------------- the timer

\* clearTimeout(h): an armed timer is cancelled; null, a fired or a cancelled
\* timer are left alone.
ClearTimeout(tm, h) ==
    [i \in DOMAIN tm |->
        IF i = h /\ tm[i].state = "armed" THEN [tm[i] EXCEPT !.state = "cleared"]
        ELSE tm[i]]

\* The continuations the timer's callback invokes when it fires.  The body
\* is {alert(...); reject}: reject is named, not called, and the Error built
\* from errMsg is an argument the arrow function does not take.
TimeoutCalls(h) == <<>>

\* The timer's callback runs.  It touches neither the Map nor the entry.
TimerFire(h) ==
    /\ timers[h].state = "armed"
    /\ timers' = [timers EXCEPT ![h].state = "fired"]
    /\ calls' = calls \o TimeoutCalls(h)
    /\ lastOp' = [op |-> "timeout", key |-> timers[h].key,
                  pending |-> timers[h].key \in DOMAIN waitSet, threw |-> FALSE,
                  resolve |-> "", result |-> "", via |-> "", strict |-> FALSE, delay |-> JSNull]
    /\ UNCHANGED <<entries, waitSet, waitSetProps, cancelled, events, evtOp>>

\* ---------------------------------------------------------- Waitlist.remove

\* let waitEntry = this.waitSet[waitKey]: a property of the Map object, not
\* an element of the Map.
RemoveFinds(props, waitKey) == waitKey \in DOMAIN props

\* remove without its return on an undefined waitEntry: reading
\* waitEntry.timer throws.
RemoveThrowsUnguarded(props, waitKey) == waitKey \notin DOMAIN props

\* remove throws: never (it returns when waitEntry is undefined).
RemoveThrows(props, waitKey) == FALSE

\* The timers after remove: the timer of the entry found is cleared.
RemoveTimers(props, tm, waitKey) ==
    IF RemoveFinds(props, waitKey) /\ entries[props[waitKey]].timer # NullTimer
    THEN ClearTimeout(tm, entries[props[waitKey]].timer)
    ELSE tm

\* delete this.waitSet[waitKey]: the property is deleted.
RemoveProps(props, waitKey) ==
    [k \in DOMAIN props \ {waitKey} |-> props[k]]

\* The Map's contents after remove: remove calls no method of the Map.
RemoveMap(ws, waitKey) == ws

\* The body of remove; op and via name the call for lastOp.
RemoveAs(op, via, waitKey) ==
    /\ timers' = RemoveTimers(waitSetProps, timers, waitKey)
    /\ waitSetProps' = RemoveProps(waitSetProps, waitKey)
    /\ waitSet' = RemoveMap(waitSet, waitKey)
    /\ lastOp' = [op |-> op, key |-> waitKey,
                  pending |-> waitKey \in DOMAIN waitSet,
                  threw |-> RemoveThrows(waitSetProps, waitKey),
                  resolve |-> "", result |-> "", via |-> via, strict |-> FALSE, delay |-> JSNull]
    /\ cancelled' = IF waitKey \in DOMAIN waitSet
                    THEN cancelled \cup {waitSet[waitKey]}
                    ELSE cancelled
    /\ UNCHANGED <<entries, calls, events, evtOp>>

Remove(waitKey) == RemoveAs("remove", "", waitKey)

\* ------------------------------------------------- MessageWaitlist.remove

\* What msg.req_id gives when msg is a string (the key): a string has no
\* req_id property.
StringAsMsg(key) == [name |-> key, req_id |-> [t |-> "undefined", obj |-> 0, bits |-> 0]]

\* A check for undefined alone.
MsgIdMissingUndefinedOnly(msg) == msg.req_id.t = "undefined"

\* [undefined, null].includes(msg.req_id)
MsgIdMissing(msg) == msg.req_id.t \in {"undefined", "null"}

\* this.remove(waitKey) as dispatchEvent calls it: on a Waitlist it is
\* Waitlist.remove; on a MessageWaitlist it is MessageWaitlist.remove, which
\* takes the key for a message, finds no req_id on it and returns.
ThisRemoveRuns(cls, waitKey) ==
    cls = "Waitlist" \/ ~MsgIdMissing(StringAsMsg(waitKey))

\* --------------------------------------------------- Waitlist.dispatchEvent

\* this.waitSet.get(waitKey) is not undefined
DispatchFinds(ws, waitKey) == waitKey \in DOMAIN ws

\* dispatchEvent without its return on an undefined entry: reading
\* entry.timer throws.
DispatchThrowsUnguarded(ws, waitKey) == waitKey \notin DOMAIN ws

\* dispatchEvent throws: never (it returns when the entry is undefined, and
\* clearTimeout is inside try).
DispatchThrows(ws, waitKey) == FALSE

\* dispatchEvent taking an entry of the Map whatever the key.
DispatchEntryAny(ws, waitKey) == ws[CHOOSE k \in DOMAIN ws : TRUE]

\* The entry whose continuation is invoked.
DispatchEntry(ws, waitKey) == ws[waitKey]

\* dispatchEvent without its clearTimeout.
DispatchTimersNoClear(tm, entry) == tm

\* The timers after clearTimeout(entry.timer).
DispatchTimers(tm, entry) == ClearTimeout(tm, entry.timer)

\* callback(result) for the callback f of Requests; a result is a value of
\* Results or a message.
ApplyCallback(callback, result) ==
    CASE result = "r1" -> "f(r1)"
      [] result = "r2" -> "f(r2)"
      [] result = "mA" -> "f(mA)"
      [] result = "mB" -> "f(mB)"
      [] result = "mC" -> "f(mC)"
      [] result = "mD" -> "f(mD)"
      [] OTHER -> "f(?)"

\* dispatchEvent that never applies the callback.
ResolveArgRaw(entry, result) == result

\* The argument of entry.resolve.
ResolveArg(entry, result) ==
    IF entry.callback \in {"'undefined'", "null"}
    THEN result
    ELSE ApplyCallback(entry.callback, result)

\* The state of an entry's timer, "none" for timer = null.
TimerState(tm, entry) ==
    IF entry.timer = NullTimer THEN "none" ELSE tm[entry.timer].state

\* The body of dispatchEvent, run on an object of class cls; op and via name
\* the call for lastOp.
DispatchAs(cls, op, via, waitKey, result) ==
    IF ~DispatchFinds(waitSet, waitKey)
    THEN /\ lastOp' = [op |-> op, key |-> waitKey, pending |-> FALSE,
                       threw |-> DispatchThrows(waitSet, waitKey),
                       resolve |-> "", result |-> result, via |-> via,
                       strict |-> FALSE, delay |-> JSNull]
         /\ UNCHANGED <<entries, waitSet, waitSetProps, timers, calls, cancelled, events, evtOp>>
    ELSE LET id == DispatchEntry(waitSet, waitKey)
             entry == entries[id]
             tm1 == DispatchTimers(timers, entry)
             \* this.remove(waitKey)
             runs == ThisRemoveRuns(cls, waitKey)
             tm2 == IF runs THEN RemoveTimers(waitSetProps, tm1, waitKey) ELSE tm1
             props2 == IF runs THEN RemoveProps(waitSetProps, waitKey) ELSE waitSetProps
             ws2 == IF runs THEN RemoveMap(waitSet, waitKey) ELSE waitSet
         IN /\ Len(calls) < MaxCalls
            /\ timers' = tm2
            /\ waitSetProps' = props2
            /\ waitSet' = ws2
            \* entry.resolve(...), with what the continuation finds when called
            /\ calls' = Append(calls, [entry |-> id, fn |-> "resolve",
                                       arg |-> ResolveArg(entry, result),
                                       timerAtCall |-> TimerState(tm2, entry),
                                       pendingAtCall |-> waitKey \in DOMAIN ws2])
            /\ lastOp' = [op |-> op, key |-> waitKey, pending |-> TRUE,
                          threw |-> DispatchThrows(waitSet, waitKey),
                          resolve |-> "", result |-> result, via |-> via,
                          strict |-> FALSE, delay |-> JSNull]
            /\ UNCHANGED <<entries, cancelled, events, evtOp>>

DispatchEvent(waitKey, result) ==
    DispatchAs("Waitlist", "dispatchEvent", "", waitKey, result)

\* ------------------------------------------------------------ specification

Next ==
    \/ \E k \in Keys, q \in Requests : Add(k, q.resolve, q.reject, q.options)
    \/ \E k \in Keys : Remove(k)
    \/ \E k \in Keys, r \in Results : DispatchEvent(k, r)
    \/ \E h \in DOMAIN timers : TimerFire(h)

Spec == Init /\ [][Next]_vars

\* ------------------------------------------------------ the delay option

\* An object whose explicit_val is not a number: a string, or null.
WrapperOf(evt) == [t |-> "object", v |-> 0, evt |-> evt, evv |-> 0]

\* The options arguments that differ in the delay: none, absent, null, zero
\* and positive and negative numbers, each raw and wrapped, a wrapped
\* string, a wrapped null and a raw string.
DelayArgs ==
    { Omitted, EmptyObject, DelayOnly(JSNull),
      DelayOnly(JSNum(0)), DelayOnly(TimeoutDuration(0)),
      DelayErrMsgCallback(JSNum(5), "late", "f"),
      DelayErrMsgCallback(TimeoutDuration(5), "late", "f"),
      DelayOnly(JSNum(-5)), DelayOnly(TimeoutDuration(-5)),
      DelayOnly(WrapperOf("string")), DelayOnly(WrapperOf("null")),
      DelayOnly(JSStr) }

\* The Waitlist with add called as the caller writes it, over the delays;
\* every add is for one key, so that a later add finds the earlier entry.
DelayNext ==
    \/ \E a \in DelayArgs : AddCall("k1", "s1", "f1", a)
    \/ \E k \in Keys : Remove(k)
    \/ \E k \in Keys : DispatchEvent(k, "r1")
    \/ \E h \in DOMAIN timers : TimerFire(h)

SpecDelay == Init /\ [][DelayNext]_vars

\* --------------------------------------------------------- MessageWaitlist

\* The messages handed to the MessageWaitlist.  name is the message object;
\* req_id is its request identifier: undefined, null or a MsgUUID object obj
\* with the identifier value bits.
Msgs ==
    { [name |-> "mA", req_id |-> [t |-> "object", obj |-> 1, bits |-> 1]],
      [name |-> "mB", req_id |-> [t |-> "object", obj |-> 2, bits |-> 1]],
      [name |-> "mC", req_id |-> [t |-> "object", obj |-> 3, bits |-> 2]],
      [name |-> "mD", req_id |-> [t |-> "object", obj |-> 4, bits |-> 2]],
      [name |-> "mU", req_id |-> [t |-> "undefined", obj |-> 0, bits |-> 0]],
      [name |-> "mN", req_id |-> [t |-> "null", obj |-> 0, bits |-> 0]] }

\* The messages sent, which the sender hands to add and remove, and the
\* messages received, which the transport hands to dispatchEvent: a response
\* (mB, mD) carries the identifier of its request (mA, mC) in a MsgUUID
\* object of its own.
Sent == {m \in Msgs : m.name \in {"mA", "mC", "mU", "mN"}}
Received == {m \in Msgs : m.name \in {"mB", "mD", "mU", "mN"}}

\* The MessageWaitlist.add calls, after the defaults of the destructuring
\* pattern have been applied (nullReqIdIsError = true).
MsgRequests ==
    { [resolve |-> "s1", reject |-> "f1",
       options |-> [delay |-> JSNull, errMsg |-> "", callback |-> "null",
                    nullReqIdIsError |-> TRUE]],
      [resolve |-> "s2", reject |-> "f2",
       options |-> [delay |-> JSNum(5), errMsg |-> "late", callback |-> "f",
                    nullReqIdIsError |-> FALSE]] }

\* MsgUUID.toString(): the canonical string of the identifier value.
ToString(req_id) ==
    CASE req_id.bits = 1 -> "u1"
      [] req_id.bits = 2 -> "u2"
      [] OTHER -> "u?"

\* A MessageWaitlist keyed by the MsgUUID object instead of its string.
MsgKeyByIdentity(msg) ==
    CASE msg.req_id.obj = 1 -> "MsgUUID#1"
      [] msg.req_id.obj = 2 -> "MsgUUID#2"
      [] msg.req_id.obj = 3 -> "MsgUUID#3"
      [] OTHER -> "MsgUUID#4"

\* const key = msg.req_id.toString()
MsgKey(msg) == ToString(msg.req_id)

\* msg.req_id.toString() throws: req_id is undefined or null.
MsgKeyThrows(msg) == msg.req_id.t \in {"undefined", "null"}

\* The operation on a message without req_id: nothing but the return or throw.
MsgNoKey(op, msg, resolve, strict, threw) ==
    /\ lastOp' = [op |-> op, key |-> "", pending |-> FALSE, threw |-> threw,
                  resolve |-> resolve, result |-> "", via |-> msg.name,
                  strict |-> strict, delay |-> JSNull]
    /\ UNCHANGED <<entries, waitSet, waitSetProps, timers, calls, cancelled, events, evtOp>>

\* MessageWaitlist.add throwing for every message without req_id.
MsgAddRejectsAlways(options) == TRUE

\* MessageWaitlist.add throws for a message without req_id, or returns.
MsgAddRejects(options) == options.nullReqIdIsError

MsgAdd(msg, resolve, reject, options) ==
    IF MsgIdMissing(msg)
    THEN MsgNoKey("msg.add", msg, resolve, options.nullReqIdIsError,
                  MsgAddRejects(options))
    ELSE IF MsgKeyThrows(msg)
    THEN MsgNoKey("msg.add", msg, resolve, options.nullReqIdIsError, TRUE)
    ELSE AddAs("msg.add", msg.name, options.nullReqIdIsError, MsgKey(msg),
               resolve, reject,
               [delay |-> options.delay, errMsg |-> options.errMsg,
                callback |-> options.callback])

\* {delay = null, errMsg = '', callback = null, nullReqIdIsError = true}:
\* the pattern of MessageWaitlist.add, which has no default for an undefined
\* argument; destructuring undefined throws TypeError.
MsgOptionsThrow(arg) == arg.t = "undefined"

MsgOptionsOf(arg) ==
    [delay |-> Prop(arg, "delay", JSNull),
     errMsg |-> Prop(arg, "errMsg", ""),
     callback |-> Prop(arg, "callback", "null"),
     nullReqIdIsError |-> Prop(arg, "nullReqIdIsError", TRUE)]

\* MessageWaitlist.add as it is called: the options argument is destructured
\* before the first statement of the body.
MsgAddCall(msg, resolve, reject, arg) ==
    IF MsgOptionsThrow(arg)
    THEN MsgNoKey(CallName("msg.add", arg), msg, resolve, FALSE, TRUE)
    ELSE MsgAdd(msg, resolve, reject, MsgOptionsOf(arg))

MsgRemove(msg) ==
    IF MsgIdMissing(msg)
    THEN MsgNoKey("msg.remove", msg, "", FALSE, FALSE)
    ELSE IF MsgKeyThrows(msg)
    THEN MsgNoKey("msg.remove", msg, "", FALSE, TRUE)
    ELSE RemoveAs("msg.remove", msg.name, MsgKey(msg))

\* A MessageWaitlist that hands the key to the continuation.
MsgDispatchResultKey(msg) == MsgKey(msg)

\* The result MessageWaitlist.dispatchEvent hands on: the message.
MsgDispatchResult(msg) == msg.name

MsgDispatchEvent(msg) ==
    IF MsgIdMissing(msg)
    THEN MsgNoKey("msg.dispatchEvent", msg, "", FALSE, FALSE)
    ELSE IF MsgKeyThrows(msg)
    THEN MsgNoKey("msg.dispatchEvent", msg, "", FALSE, TRUE)
    ELSE DispatchAs("MessageWaitlist", "msg.dispatchEvent", msg.name, MsgKey(msg),
                    MsgDispatchResult(msg))

MsgNext ==
    \/ \E m \in Sent, q \in MsgRequests : MsgAdd(m, q.resolve, q.reject, q.options)
    \/ \E m \in Sent : MsgRemove(m)
    \/ \E m \in Received : MsgDispatchEvent(m)
    \/ \E h \in DOMAIN timers : TimerFire(h)

SpecMsg == Init /\ [][MsgNext]_vars

\* The options arguments of the MessageWaitlist.add calls: none, an empty
\* object, and an object with every option.
MsgOptionArgs ==
    { Omitted, EmptyObject, AllOptions(JSNum(5), "late", "f", FALSE) }

\* The MessageWaitlist with add called as the caller writes it.
MsgOptNext ==
    \/ \E m \in Sent, a \in MsgOptionArgs : MsgAddCall(m, "s1", "f1", a)
    \/ \E m \in Sent : MsgRemove(m)
    \/ \E m \in Received : MsgDispatchEvent(m)
    \/ \E h \in DOMAIN timers : TimerFire(h)

SpecMsgOpt == Init /\ [][MsgOptNext]_vars

\* --------------------------------------------------------- EventListenable

\* Event names handed to addEventListener / removeEventListener.  None of
\* them names a property of Object.prototype.
EventNames == {"e1", "e2"}

\* The callbacks: function objects, by identity (obj) and source text (src).
\* Functions 1 and 2 are two objects with the same text, as two evaluations
\* of one function expression give.
Fns ==
    { [obj |-> 1, src |-> "a"], [obj |-> 2, src |-> "a"], [obj |-> 3, src |-> "b"] }

\* callback.toString() of a function: its source text.
FnToString(cb) == cb.src

\* this.events[action_enum] || []
Chain(ev, name) == IF name \in DOMAIN ev THEN ev[name] ELSE <<>>

\* The loop of addEventListener returns: a callback of the chain has the
\* same string as the new one.
AlreadyDefined(chain, cb) ==
    \E i \in DOMAIN chain : FnToString(chain[i]) = FnToString(cb)

\* this.events[name] = chain
SetChain(ev, name, chain) ==
    [n \in DOMAIN ev \cup {name} |-> IF n = name THEN chain ELSE ev[n]]

AddEventListener(action_enum, callback) ==
    LET chain == Chain(events, action_enum)
    IN /\ events' = SetChain(events, action_enum,
                             IF AlreadyDefined(chain, callback)
                             THEN chain
                             ELSE Append(chain, callback))
       /\ evtOp' = [op |-> "addEventListener", event |-> action_enum,
                    callback |-> callback, threw |-> FALSE]
       /\ UNCHANGED <<entries, waitSet, waitSetProps, timers, calls, lastOp, cancelled>>

\* evt_entry and cb_idx are declared: nowhere, neither in the method nor as
\* globals, and a class body is strict code, so the assignment
\* evt_entry = ... throws ReferenceError.
Declared == FALSE

\* evt_entry.indexOf(callback), counted from 1; 0 for not found.
IndexOf(chain, cb) ==
    IF \E i \in DOMAIN chain : chain[i] = cb
    THEN CHOOSE i \in DOMAIN chain :
            chain[i] = cb /\ \A j \in 1..(i - 1) : chain[j] # cb
    ELSE 0

\* evt_entry.splice(cb_idx, 1)
Splice(chain, i) ==
    [j \in 1..(Len(chain) - 1) |-> IF j < i THEN chain[j] ELSE chain[j + 1]]

RemoveEventListener(event_name, callback) ==
    /\ evtOp' = [op |-> "removeEventListener", event |-> event_name,
                 callback |-> callback, threw |-> ~Declared]
    /\ IF ~Declared
       THEN events' = events
       ELSE IF event_name \notin DOMAIN events
       THEN events' = events
       ELSE IF IndexOf(events[event_name], callback) = 0
       THEN events' = events
       ELSE events' = SetChain(events, event_name,
                               Splice(events[event_name],
                                      IndexOf(events[event_name], callback)))
    /\ UNCHANGED <<entries, waitSet, waitSetProps, timers, calls, lastOp, cancelled>>

EvtNext ==
    \/ \E n \in EventNames, cb \in Fns : AddEventListener(n, cb)
    \/ \E n \in EventNames, cb \in Fns : RemoveEventListener(n, cb)

SpecEvt == Init /\ [][EvtNext]_vars

\* ------------------------------------------------------------------ claims

\* The invocations of the continuations of entry e.
CallsOf(cs, e) == {i \in DOMAIN cs : cs[i].entry = e}

\* The entry created together with timer h.
Owner(h) == CHOOSE e \in DOMAIN entries : entries[e].timer = h

\* The step was made by operation op.
StepOf(op) == lastOp'.op = op

\* C1: every entry's continuations (resolve and reject together) are invoked
\* at most once.
C1_ExactlyOnce ==
    \A e \in DOMAIN entries : Cardinality(CallsOf(calls, e)) <= 1

\* C2: when dispatchEvent(k, r) on a key that was in the Map has returned, k
\* is no longer in the Map.
C2_ResolveRemoves ==
    (lastOp.op = "dispatchEvent" /\ lastOp.pending) => lastOp.key \notin DOMAIN waitSet

\* C3: a timer that has fired, of an entry neither resolved nor cancelled, has
\* invoked the entry's reject exactly once, with the error carrying errMsg.
C3_TimeoutRejects ==
    \A h \in DOMAIN timers :
        ( /\ timers[h].state = "fired"
          /\ Owner(h) \notin cancelled
          /\ \A i \in CallsOf(calls, Owner(h)) : calls[i].fn # "resolve" )
        => /\ Cardinality({i \in CallsOf(calls, Owner(h)) : calls[i].fn = "reject"}) = 1
           /\ \A i \in CallsOf(calls, Owner(h)) :
                 calls[i].fn = "reject" => calls[i].arg = timers[h].errMsg

\* C4: no entry whose timer has fired is in the Map, and no continuation is
\* invoked by a dispatchEvent that comes after the entry's timer fired.
C4_TimeoutRemoves ==
    /\ \A k \in DOMAIN waitSet : TimerState(timers, entries[waitSet[k]]) # "fired"
    /\ \A i \in DOMAIN calls : calls[i].timerAtCall # "fired"

\* C5: a dispatchEvent(k, r) that finds an entry whose timer is armed invokes
\* the entry's resolve exactly once, with the timer already cleared; a cleared
\* timer never fires; and an entry resolved ahead of its timer never has its
\* reject invoked.
C5_ResolveBeatsTimer ==
    [][ /\ \A k \in DOMAIN waitSet :
              ( /\ StepOf("dispatchEvent") /\ lastOp'.key = k
                /\ TimerState(timers, entries[waitSet[k]]) = "armed" )
              => /\ Len(calls') = Len(calls) + 1
                 /\ SubSeq(calls', 1, Len(calls)) = calls
                 /\ calls'[Len(calls')].entry = waitSet[k]
                 /\ calls'[Len(calls')].fn = "resolve"
                 /\ calls'[Len(calls')].timerAtCall = "cleared"
                 /\ TimerState(timers', entries[waitSet[k]]) = "cleared"
        /\ \A h \in DOMAIN timers :
              timers[h].state = "cleared" => timers'[h].state = "cleared"
        /\ \A i, j \in DOMAIN calls' :
              (calls'[i].fn = "resolve" /\ calls'[i].timerAtCall = "cleared")
              => ~(calls'[j].entry = calls'[i].entry /\ calls'[j].fn = "reject")
      ]_vars

\* C5's case: dispatchEvent has just resolved an entry whose timer was armed.
C5_Witness ==
    /\ lastOp.op = "dispatchEvent" /\ lastOp.pending
    /\ calls # <<>>
    /\ calls[Len(calls)].timerAtCall = "cleared"
    /\ TimerState(timers, entries[calls[Len(calls)].entry]) = "cleared"

\* C6: remove(k) on a key that is in the Map takes the entry out of the Map
\* and invokes no continuation, and no later dispatchEvent invokes a
\* continuation of an entry that was cancelled.
C6_CancelRemoves ==
    [][ /\ (StepOf("remove") /\ lastOp'.pending)
           => (lastOp'.key \notin DOMAIN waitSet' /\ calls' = calls)
        /\ calls' # calls
           => \A i \in DOMAIN calls' \ DOMAIN calls : calls'[i].entry \notin cancelled
      ]_vars

\* C7: the timer of an entry that was cancelled with remove(k) does not fire
\* afterwards.
C7_CancelStopsTimer ==
    [][ \A h \in DOMAIN timers :
           (timers[h].state = "armed" /\ timers'[h].state = "fired")
           => Owner(h) \notin cancelled
      ]_vars

\* The entry under k is not pending any more: k was never added, or its entry
\* was already cancelled, already resolved or already timed out.
Settled(k) ==
    \/ k \notin DOMAIN waitSet
    \/ /\ k \in DOMAIN waitSet
       /\ \/ waitSet[k] \in cancelled
          \/ CallsOf(calls, waitSet[k]) # {}
          \/ TimerState(timers, entries[waitSet[k]]) = "fired"

\* C8: remove(k) on a key never added, already cancelled, already resolved or
\* already timed out does not throw, leaves the Map, the entries and all
\* timers as they are and invokes no continuation.
C8_CancelTolerant ==
    [][ (StepOf("remove") /\ Settled(lastOp'.key))
        => /\ ~lastOp'.threw
           /\ waitSet' = waitSet
           /\ waitSetProps' = waitSetProps
           /\ entries' = entries
           /\ timers' = timers
           /\ calls' = calls
      ]_vars

\* C8's case: remove has just been called on the key of an entry that was
\* resolved before, while a timer is armed and another key was never added.
C8_Witness ==
    /\ lastOp.op = "remove" /\ lastOp.pending
    /\ waitSet[lastOp.key] \in cancelled
    /\ CallsOf(calls, waitSet[lastOp.key]) # {}
    /\ \E h \in DOMAIN timers : timers[h].state = "armed"
    /\ DOMAIN waitSet # Keys

\* C9: dispatchEvent(k, r) on a key that is not in the Map does not throw,
\* invokes no continuation, clears no timer and leaves the Map as it is.
C9_UnknownKeyNoop ==
    [][ (StepOf("dispatchEvent") /\ lastOp'.key \notin DOMAIN waitSet)
        => /\ ~lastOp'.threw
           /\ waitSet' = waitSet
           /\ waitSetProps' = waitSetProps
           /\ entries' = entries
           /\ timers' = timers
           /\ calls' = calls
      ]_vars

\* C9's case: dispatchEvent has just been called on a key that is not in the
\* Map, while another key is there with an armed timer.
C9_Witness ==
    /\ lastOp.op = "dispatchEvent"
    /\ lastOp.key \notin DOMAIN waitSet
    /\ \E k \in DOMAIN waitSet :
          TimerState(timers, entries[waitSet[k]]) = "armed"

\* C10: with two different keys in the Map, dispatchEvent(k2, r) invokes the
\* resolve of k2's entry and nothing else, and leaves k1's entry in the Map
\* with its timer as it was.
C10_Isolation ==
    [][ \A k1, k2 \in DOMAIN waitSet :
           (k1 # k2 /\ StepOf("dispatchEvent") /\ lastOp'.key = k2)
           => /\ Len(calls') = Len(calls) + 1
              /\ SubSeq(calls', 1, Len(calls)) = calls
              /\ calls'[Len(calls')].entry = waitSet[k2]
              /\ calls'[Len(calls')].fn = "resolve"
              /\ k1 \in DOMAIN waitSet'
              /\ waitSet'[k1] = waitSet[k1]
              /\ entries'[waitSet[k1]] = entries[waitSet[k1]]
              /\ TimerState(timers', entries[waitSet[k1]])
                    = TimerState(timers, entries[waitSet[k1]])
      ]_vars

\* C10's case: dispatchEvent has just resolved one key while the other key's
\* entry, never resolved, is in the Map with its timer armed.
C10_Witness ==
    /\ lastOp.op = "dispatchEvent" /\ lastOp.pending
    /\ calls # <<>>
    /\ \E k1 \in DOMAIN waitSet :
          /\ k1 # lastOp.key
          /\ CallsOf(calls, waitSet[k1]) = {}
          /\ TimerState(timers, entries[waitSet[k1]]) = "armed"
          /\ calls[Len(calls)].entry = waitSet[lastOp.key]

\* The argument a continuation is to get for result r: the transform of r
\* when a transform was given at registration, r itself otherwise.
ExpectedArg(callback, r) ==
    IF callback = "null" THEN r ELSE ApplyCallback(callback, r)

\* C11: add(k, ...) on a key whose entry was resolved before creates a new
\* entry and stores it under k, with the continuation given and no invocation
\* to its name; a following dispatchEvent(k, r2) invokes the resolve of that
\* new entry, once, with r2 (transformed if a transform was given), and no
\* continuation of the earlier entry.
C11_ReRegister ==
    [][ /\ \A k \in DOMAIN waitSet :
              ( /\ StepOf("add") /\ lastOp'.key = k /\ ~lastOp'.threw
                /\ CallsOf(calls, waitSet[k]) # {} )
              => /\ Len(entries') = Len(entries) + 1
                 /\ waitSet'[k] = Len(entries')
                 /\ entries'[Len(entries')].resolve = lastOp'.resolve
                 /\ CallsOf(calls', Len(entries')) = {}
                 /\ calls' = calls
        /\ \A k \in DOMAIN waitSet :
              ( /\ StepOf("dispatchEvent") /\ lastOp'.key = k
                /\ \E e0 \in 1..(waitSet[k] - 1) :
                      entries[e0].key = k /\ CallsOf(calls, e0) # {} )
              => /\ Len(calls') = Len(calls) + 1
                 /\ SubSeq(calls', 1, Len(calls)) = calls
                 /\ calls'[Len(calls')].entry = waitSet[k]
                 /\ calls'[Len(calls')].fn = "resolve"
                 /\ calls'[Len(calls')].arg
                       = ExpectedArg(entries[waitSet[k]].callback, lastOp'.result)
      ]_vars

\* C11's case: a key was added with s1 and resolved, added again with s2, and
\* dispatchEvent has just invoked the second entry's resolve with r2.
C11_Witness ==
    /\ lastOp.op = "dispatchEvent" /\ lastOp.pending /\ lastOp.result = "r2"
    /\ Len(entries) = 2 /\ Len(calls) = 2
    /\ entries[1].key = lastOp.key /\ entries[2].key = lastOp.key
    /\ entries[1].resolve = "s1" /\ entries[2].resolve = "s2"
    /\ calls[1].entry = 1 /\ calls[2].entry = 2
    /\ calls[2].arg = "f(r2)"

\* C12: the resolve of an entry is invoked with callback(result) when a
\* callback was given in the options of add, and with the result itself when
\* none was given.
C12_Transform ==
    (lastOp.op = "dispatchEvent" /\ lastOp.pending)
    => /\ calls # <<>>
       /\ calls[Len(calls)].fn = "resolve"
       /\ calls[Len(calls)].arg
             = ExpectedArg(entries[calls[Len(calls)].entry].callback, lastOp.result)

\* C12's case: one entry without callback was resolved with r1, and an entry
\* with callback f has just been resolved with r2.
C12_Witness ==
    /\ lastOp.op = "dispatchEvent" /\ lastOp.pending /\ lastOp.result = "r2"
    /\ Len(calls) = 2
    /\ entries[calls[1].entry].callback = "null" /\ calls[1].arg = "r1"
    /\ entries[calls[2].entry].callback = "f" /\ calls[2].arg = "f(r2)"

\* The entry under k is pending: in the Map, and neither cancelled, resolved
\* nor timed out.
Pending(k) == k \in DOMAIN waitSet /\ ~Settled(k)

\* C13 as claimed: add(k, ...) on a key whose entry is pending leaves that
\* entry the one stored under k.
C13_DuplicateKept ==
    [][ \A k \in DOMAIN waitSet :
           (StepOf("add") /\ lastOp'.key = k /\ Pending(k))
           => (k \in DOMAIN waitSet' /\ waitSet'[k] = waitSet[k])
      ]_vars

\* C13 as amended: add(k, ...) on a key whose entry is pending replaces it:
\* the entry stored under k is the new one, with the continuation given, the
\* other keys keep their entries, and a following dispatchEvent(k, r) invokes
\* the resolve of the entry stored; an add that throws changes nothing.
C13_DuplicateReplaces ==
    [][ /\ \A k \in DOMAIN waitSet :
              (StepOf("add") /\ lastOp'.key = k /\ Pending(k))
              => IF lastOp'.threw
                 THEN waitSet' = waitSet /\ entries' = entries /\ timers' = timers
                 ELSE /\ Len(entries') = Len(entries) + 1
                      /\ SubSeq(entries', 1, Len(entries)) = entries
                      /\ waitSet'[k] = Len(entries')
                      /\ entries'[Len(entries')].resolve = lastOp'.resolve
                      /\ DOMAIN waitSet' = DOMAIN waitSet
                      /\ \A k2 \in DOMAIN waitSet \ {k} : waitSet'[k2] = waitSet[k2]
        /\ \A k \in DOMAIN waitSet :
              (StepOf("dispatchEvent") /\ lastOp'.key = k)
              => /\ calls' # calls
                 /\ \A i \in DOMAIN calls' \ DOMAIN calls : calls'[i].entry = waitSet[k]
      ]_vars

\* C13's case: a pending key was added a second time with other continuations
\* and dispatchEvent has just invoked the second entry's resolve, the first
\* entry's never.
C13_Witness ==
    /\ lastOp.op = "dispatchEvent" /\ lastOp.pending
    /\ Len(entries) = 2
    /\ entries[1].key = lastOp.key /\ entries[2].key = lastOp.key
    /\ entries[1].resolve # entries[2].resolve
    /\ CallsOf(calls, 1) = {}
    /\ calls # <<>> /\ calls[Len(calls)].entry = 2

\* The message object named n.
MsgNamed(n) == CHOOSE m \in Msgs : m.name = n

\* Two messages carry structurally equal request identifiers.
SameId(m1, m2) ==
    /\ m1.req_id.t = "object" /\ m2.req_id.t = "object"
    /\ m1.req_id.bits = m2.req_id.bits

\* C15: dispatchEvent(mB) on the MessageWaitlist invokes the resolve of the
\* entry stored by add(mA, ...) when the identifiers of mA and mB are
\* structurally equal, although they are different objects; when no stored
\* entry was added with an identifier equal to mB's, it invokes nothing.
C15_MsgCorrelation ==
    [][ (StepOf("msg.dispatchEvent") /\ MsgNamed(lastOp'.via).req_id.t = "object")
        => LET m == MsgNamed(lastOp'.via)
               matching == {k \in DOMAIN waitSet :
                               SameId(MsgNamed(entries[waitSet[k]].via), m)}
           IN IF matching # {}
              THEN /\ Len(calls') = Len(calls) + 1
                   /\ SubSeq(calls', 1, Len(calls)) = calls
                   /\ calls'[Len(calls')].entry \in {waitSet[k] : k \in matching}
                   /\ calls'[Len(calls')].fn = "resolve"
              ELSE calls' = calls
      ]_vars

\* C15's case: an entry was added with mA, another with mC, and
\* dispatchEvent(mB) has just invoked the resolve of mA's entry, mC's never.
C15_Witness ==
    /\ lastOp.op = "msg.dispatchEvent" /\ lastOp.pending /\ lastOp.via = "mB"
    /\ calls # <<>>
    /\ entries[calls[Len(calls)].entry].via = "mA"
    /\ MsgNamed("mA").req_id.obj # MsgNamed("mB").req_id.obj
    /\ \E e \in DOMAIN entries : entries[e].via = "mC" /\ CallsOf(calls, e) = {}

\* C16: MessageWaitlist.add with a message whose req_id is undefined or null
\* throws when nullReqIdIsError is true (the default) and returns when it is
\* false; either way it creates no entry, starts no timer and leaves the Map
\* as it is.
C16_MissingIdPolicy ==
    [][ (StepOf("msg.add") /\ MsgNamed(lastOp'.via).req_id.t \in {"undefined", "null"})
        => /\ lastOp'.threw = lastOp'.strict
           /\ waitSet' = waitSet
           /\ waitSetProps' = waitSetProps
           /\ entries' = entries
           /\ timers' = timers
           /\ calls' = calls
      ]_vars

\* C16's case: add has just returned without throwing for a message with a
\* null req_id and nullReqIdIsError false, while an entry is in the Map.
C16_Witness ==
    /\ lastOp.op = "msg.add" /\ lastOp.via = "mN"
    /\ ~lastOp.strict /\ ~lastOp.threw
    /\ Len(entries) = 1 /\ DOMAIN waitSet # {}

\* C17: the continuation invoked by MessageWaitlist.dispatchEvent(m) gets the
\* message m, or callback(m) when a callback was given, not the key.
C17_MsgIsResult ==
    (lastOp.op = "msg.dispatchEvent" /\ lastOp.pending)
    => /\ calls # <<>>
       /\ calls[Len(calls)].fn = "resolve"
       /\ calls[Len(calls)].arg
             = ExpectedArg(entries[calls[Len(calls)].entry].callback, lastOp.via)

\* C17's case: dispatchEvent(mB) resolved an entry without callback with mB,
\* and dispatchEvent(mD) has just resolved one with callback f with f(mD).
C17_Witness ==
    /\ lastOp.op = "msg.dispatchEvent" /\ lastOp.pending /\ lastOp.via = "mD"
    /\ Len(calls) = 2
    /\ calls[1].arg = "mB"
    /\ calls[2].arg = "f(mD)"

\* C18: MessageWaitlist.remove(m) and MessageWaitlist.dispatchEvent(m) with a
\* message whose req_id is undefined or null throw nothing, invoke no
\* continuation, clear no timer and leave the Map as it is.
C18_MissingIdNoop ==
    [][ ( /\ StepOf("msg.remove") \/ StepOf("msg.dispatchEvent")
          /\ MsgNamed(lastOp'.via).req_id.t \in {"undefined", "null"} )
        => /\ ~lastOp'.threw
           /\ waitSet' = waitSet
           /\ waitSetProps' = waitSetProps
           /\ entries' = entries
           /\ timers' = timers
           /\ calls' = calls
      ]_vars

\* C18's case: dispatchEvent has just been called with a message whose req_id
\* is null, while an entry with an armed timer is in the Map.
C18_Witness ==
    /\ lastOp.op = "msg.dispatchEvent" /\ lastOp.via = "mN" /\ ~lastOp.threw
    /\ \E k \in DOMAIN waitSet :
          TimerState(timers, entries[waitSet[k]]) = "armed"

\* C19: whenever dispatchEvent invokes a continuation, the entry is no longer
\* in the Map.
C19_RemovedAtCall ==
    \A i \in DOMAIN calls : ~calls[i].pendingAtCall

\* C20: when MessageWaitlist.remove(m) or MessageWaitlist.dispatchEvent(m) on
\* an identifier that was in the Map has returned, the canonical string of the
\* identifier is no longer a key of the Map.
C20_MsgRemovalReachesMap ==
    (lastOp.op \in {"msg.remove", "msg.dispatchEvent"} /\ lastOp.pending)
    => lastOp.key \notin DOMAIN waitSet

\* A delay that is given (not null) and is neither a number nor an object
\* with an explicit_val.
InvalidDelay(d) ==
    /\ d.t \notin {"null", "number"}
    /\ ~(d.t = "object" /\ d.evt # "undefined")

\* C14: add with an invalid delay throws, and an add that throws inserts no
\* entry, starts no timer and leaves the Map as it is; add throws for no
\* other delay.
C14_InvalidDelay ==
    [][ StepOf("add")
        => /\ lastOp'.threw = InvalidDelay(lastOp'.delay)
           /\ lastOp'.threw
              => /\ waitSet' = waitSet
                 /\ waitSetProps' = waitSetProps
                 /\ entries' = entries
                 /\ timers' = timers
                 /\ calls' = calls
      ]_vars

\* C14's case: add has just thrown on a string delay, for a key whose entry
\* is in the Map with its timer armed.
C14_Witness ==
    /\ lastOp.op = "add" /\ lastOp.threw /\ lastOp.delay.t = "string"
    /\ lastOp.key \in DOMAIN waitSet
    /\ TimerState(timers, entries[waitSet[lastOp.key]]) = "armed"

\* C21: MessageWaitlist.add(m, resolve, reject), called without the options
\* argument for a message that has a req_id, does not throw and stores a new
\* entry under the identifier's string, without timer and without callback.
C21_OptionsOptional ==
    [][ (StepOf("msg.add/3") /\ MsgNamed(lastOp'.via).req_id.t = "object")
        => /\ ~lastOp'.threw
           /\ Len(entries') = Len(entries) + 1
           /\ entries'[Len(entries')].timer = NullTimer
           /\ entries'[Len(entries')].callback = "null"
           /\ waitSet' = MapSet(waitSet, MsgKey(MsgNamed(lastOp'.via)), Len(entries'))
           /\ timers' = timers
      ]_vars

\* A delay that is a non-negative number, raw or as the explicit_val of an
\* object.
NonNegativeDuration(d) ==
    \/ d.t = "number" /\ d.v >= 0
    \/ d.t = "object" /\ d.evt = "number" /\ d.evv >= 0

\* The number of milliseconds of such a delay.
DurationOf(d) == IF d.t = "number" THEN d.v ELSE d.evv

\* C22: an add with a delay that is not null either throws or hands a
\* non-negative number to setTimeout, and it throws for every delay that is
\* not a non-negative number or an object with such an explicit_val.
C22_NonNegativeScheduled ==
    [][ (StepOf("add") /\ lastOp'.delay.t # "null")
        => /\ ~lastOp'.threw
              => /\ Len(timers') = Len(timers) + 1
                 /\ timers'[Len(timers')].delay.t = "number"
                 /\ timers'[Len(timers')].delay.v >= 0
           /\ ~NonNegativeDuration(lastOp'.delay) => lastOp'.threw
      ]_vars

\* C23: add with an object whose explicit_val is the non-negative number d
\* and add with the number d both return, start one armed timer with the
\* delay d and store one new entry holding the continuation given and that
\* timer; of two such adds in a row with the same d and the same other
\* arguments, one with the number and one with the object, the second makes
\* the same timer and the same entry as the first (but for the handle).
C23_WrapperEqualsRaw ==
    [][ (StepOf("add") /\ NonNegativeDuration(lastOp'.delay))
        => /\ ~lastOp'.threw
           /\ Len(timers') = Len(timers) + 1
           /\ SubSeq(timers', 1, Len(timers)) = timers
           /\ timers'[Len(timers')].state = "armed"
           /\ timers'[Len(timers')].delay = JSNum(DurationOf(lastOp'.delay))
           /\ Len(entries') = Len(entries) + 1
           /\ entries'[Len(entries')].resolve = lastOp'.resolve
           /\ entries'[Len(entries')].timer = Len(timers')
           /\ waitSet'[lastOp'.key] = Len(entries')
           /\ ( /\ lastOp.op = "add" /\ NonNegativeDuration(lastOp.delay)
                /\ lastOp.delay.t # lastOp'.delay.t
                /\ DurationOf(lastOp.delay) = DurationOf(lastOp'.delay)
                /\ lastOp.key = lastOp'.key /\ lastOp.resolve = lastOp'.resolve )
              => /\ timers'[Len(timers')] = timers[Len(timers)]
                 /\ entries'[Len(entries')]
                       = [entries[Len(entries)] EXCEPT !.timer = Len(timers')]
      ]_vars

\* C23's case: add with the number 0 was followed by add with an object
\* whose explicit_val is 0, and both timers are armed with the delay 0.
C23_Witness ==
    /\ lastOp.op = "add" /\ lastOp.delay = TimeoutDuration(0)
    /\ Len(entries) = 2 /\ Len(timers) = 2
    /\ timers[1] = timers[2] /\ timers[2].delay = JSNum(0)
    /\ timers[2].state = "armed"
    /\ entries[2] = [entries[1] EXCEPT !.timer = 2]

\* C24: the entry an add stores holds a timer exactly when the delay of the
\* call, after the defaults for an absent options argument or an absent
\* delay, is not null, and that timer is a new one; an entry, once created,
\* never changes; and no reject is invoked for an entry without timer.
C24_TimerPresence ==
    [][ /\ ((StepOf("add") \/ StepOf("add/3")) /\ ~lastOp'.threw)
           => /\ Len(entries') = Len(entries) + 1
              /\ (entries'[Len(entries')].timer # NullTimer)
                    <=> (lastOp'.delay.t # "null")
              /\ StepOf("add/3") => entries'[Len(entries')].timer = NullTimer
              /\ entries'[Len(entries')].timer # NullTimer
                    => entries'[Len(entries')].timer \in DOMAIN timers' \ DOMAIN timers
              /\ waitSet'[lastOp'.key] = Len(entries')
        /\ Len(entries') >= Len(entries)
        /\ SubSeq(entries', 1, Len(entries)) = entries
        /\ \A i \in DOMAIN calls' :
              entries'[calls'[i].entry].timer = NullTimer => calls'[i].fn # "reject"
      ]_vars

\* C24's case: add has just been called without options and stored an entry
\* without timer, after an add with a delay whose timer has fired.
C24_Witness ==
    /\ lastOp.op = "add/3" /\ ~lastOp.threw
    /\ entries[waitSet[lastOp.key]].timer = NullTimer
    /\ waitSet[lastOp.key] = Len(entries)
    /\ \E e \in DOMAIN entries :
          entries[e].timer # NullTimer /\ timers[entries[e].timer].state = "fired"

\* C25: every armed timer is the timer of the entry stored in the Map under
\* the key it was started for.
C25_NoOrphanTimers ==
    \A h \in DOMAIN timers :
        timers[h].state = "armed"
        => /\ timers[h].key \in DOMAIN waitSet
           /\ entries[waitSet[timers[h].key]].timer = h

\* The callback chain without its first occurrence of cb.
WithoutFirst(chain, cb) ==
    IF IndexOf(chain, cb) = 0 THEN chain ELSE Splice(chain, IndexOf(chain, cb))

\* C26: addEventListener(event, cb) leaves the event's chain as it is when
\* the function object cb is in it and appends cb when it is not, leaving
\* the other chains alone; no chain ever holds one function object twice.
C26_DeclinesExactSame ==
    [][ /\ evtOp'.op = "addEventListener"
           => LET chain == Chain(events, evtOp'.event)
                  cb == evtOp'.callback
              IN /\ ~evtOp'.threw
                 /\ Chain(events', evtOp'.event)
                       = IF IndexOf(chain, cb) # 0 THEN chain ELSE Append(chain, cb)
                 /\ \A n \in EventNames \ {evtOp'.event} :
                       Chain(events', n) = Chain(events, n)
        /\ \A n \in DOMAIN events' : \A i, j \in DOMAIN events'[n] :
              events'[n][i] = events'[n][j] => i = j
      ]_vars

\* C27: removeEventListener(event, cb) does not throw, takes cb out of the
\* event's chain when it is there, leaving the other callbacks in order, and
\* changes no other chain; it changes nothing when the event has no chain or
\* cb is not in it.
C27_RemoveListener ==
    [][ evtOp'.op = "removeEventListener"
        => /\ ~evtOp'.threw
           /\ Chain(events', evtOp'.event)
                 = WithoutFirst(Chain(events, evtOp'.event), evtOp'.callback)
           /\ \A n \in EventNames \ {evtOp'.event} :
                 Chain(events', n) = Chain(events, n)
      ]_vars

====
